---- MODULE Spec2Model ----
(***************************************************************************)
(* Model of package dialect of migu: the MySQL dialect (type mapping,      *)
(* quoting, catalog introspection with its cached database name) and the   *)
(* Spanner column schema accessors.                                        *)
(*                                                                         *)
(* Go strings are modelled as sequences of one-character strings, so that  *)
(* strings.ToUpper, strings.Replace, strings.Split and strconv.Atoi are    *)
(* computed character by character.                                        *)
(***************************************************************************)
EXTENDS Naturals, Integers, Sequences, FiniteSets, TLC

VARIABLES
    ty,     \* one MySQL.ColumnType call: its argument, the unsigned flag, its result
    qu,     \* one MySQL.Quote / MySQL.QuoteString call: its argument and its result
    sp,     \* a spannerColumnSchema value and the last accessor result
    d,      \* the MySQL dialect object: fields dbName and version
    pc,     \* position of the running MySQL.ColumnSchema call ("idle" between calls)
    loc,    \* locals of the running ColumnSchema call
    ret,    \* what the last ColumnSchema call delivered to its caller
    obs     \* what the database saw and answered during the last call

vars == <<ty, qu, sp, d, pc, loc, ret, obs>>

(***************************************************************************)
(* Bounds of the model.                                                    *)
(***************************************************************************)
\* longest generated type name over NameAlphabet
MaxNameLen == 3
\* longest string handed to Quote / QuoteString
MaxQuoteLen == 4
\* most rows the index catalog (information_schema.STATISTICS) answers with
MaxIdxRows == 2

(***************************************************************************)
(* Strings.                                                                *)
(***************************************************************************)
LowerLetters ==
    <<"a","b","c","d","e","f","g","h","i","j","k","l","m",
      "n","o","p","q","r","s","t","u","v","w","x","y","z">>

UpperLetters ==
    <<"A","B","C","D","E","F","G","H","I","J","K","L","M",
      "N","O","P","Q","R","S","T","U","V","W","X","Y","Z">>

Range(f) == { f[i] : i \in DOMAIN f }

\* unicode.ToUpper on one character of the modelled (ASCII) alphabet
ToUpperRune(c) ==
    IF \E i \in DOMAIN LowerLetters : LowerLetters[i] = c
    THEN UpperLetters[CHOOSE i \in DOMAIN LowerLetters : LowerLetters[i] = c]
    ELSE c

\* strings.ToUpper
ToUpper(s) == [i \in 1..Len(s) |-> ToUpperRune(s[i])]

\* all strings over alphabet A of length at most n
RECURSIVE StringsUpTo(_, _)
StringsUpTo(A, n) ==
    IF n = 0 THEN { <<>> }
    ELSE LET shorter == StringsUpTo(A, n - 1)
         IN  shorter \cup { Append(x, c) : x \in shorter, c \in A }

(***************************************************************************)
(* String literals of mysql.go.                                            *)
(***************************************************************************)
S_string == <<"s", "t", "r", "i", "n", "g">>
S_sql_NullString == <<"s", "q", "l", ".", "N", "u", "l", "l", "S", "t", "r", "i", "n", "g">>
S_bytes == <<"[", "]", "b", "y", "t", "e">>
S_int == <<"i", "n", "t">>
S_int32 == <<"i", "n", "t", "3", "2">>
S_int8 == <<"i", "n", "t", "8">>
S_bool == <<"b", "o", "o", "l">>
S_sql_NullBool == <<"s", "q", "l", ".", "N", "u", "l", "l", "B", "o", "o", "l">>
S_int16 == <<"i", "n", "t", "1", "6">>
S_int64 == <<"i", "n", "t", "6", "4">>
S_sql_NullInt64 == <<"s", "q", "l", ".", "N", "u", "l", "l", "I", "n", "t", "6", "4">>
S_uint == <<"u", "i", "n", "t">>
S_uint32 == <<"u", "i", "n", "t", "3", "2">>
S_uint8 == <<"u", "i", "n", "t", "8">>
S_uint16 == <<"u", "i", "n", "t", "1", "6">>
S_uint64 == <<"u", "i", "n", "t", "6", "4">>
S_float32 == <<"f", "l", "o", "a", "t", "3", "2">>
S_float64 == <<"f", "l", "o", "a", "t", "6", "4">>
S_sql_NullFloat64 == <<"s", "q", "l", ".", "N", "u", "l", "l", "F", "l", "o", "a", "t", "6", "4">>
S_time_Time == <<"t", "i", "m", "e", ".", "T", "i", "m", "e">>
S_mysql_NullTime == <<"m", "y", "s", "q", "l", ".", "N", "u", "l", "l", "T", "i", "m", "e">>
S_gorp_NullTime == <<"g", "o", "r", "p", ".", "N", "u", "l", "l", "T", "i", "m", "e">>
S_VARCHAR == <<"V", "A", "R", "C", "H", "A", "R">>
S_VARBINARY == <<"V", "A", "R", "B", "I", "N", "A", "R", "Y">>
S_INT == <<"I", "N", "T">>
S_TINYINT == <<"T", "I", "N", "Y", "I", "N", "T">>
S_TINYINT_1 == <<"T", "I", "N", "Y", "I", "N", "T", "(", "1", ")">>
S_SMALLINT == <<"S", "M", "A", "L", "L", "I", "N", "T">>
S_BIGINT == <<"B", "I", "G", "I", "N", "T">>
S_DOUBLE == <<"D", "O", "U", "B", "L", "E">>
S_DATETIME == <<"D", "A", "T", "E", "T", "I", "M", "E">>
S_BIT == <<"B", "I", "T">>
S_DECIMAL == <<"D", "E", "C", "I", "M", "A", "L">>
S_CHAR == <<"C", "H", "A", "R">>
S_BINARY == <<"B", "I", "N", "A", "R", "Y">>
S_YEAR == <<"Y", "E", "A", "R">>
S_BIT_1 == <<"B", "I", "T", "(", "1", ")">>
S_DECIMAL_10_0 == <<"D", "E", "C", "I", "M", "A", "L", "(", "1", "0", ",", "0", ")">>
S_VARCHAR_255 == <<"V", "A", "R", "C", "H", "A", "R", "(", "2", "5", "5", ")">>
S_VARBINARY_255 == <<"V", "A", "R", "B", "I", "N", "A", "R", "Y", "(", "2", "5", "5", ")">>
S_CHAR_1 == <<"C", "H", "A", "R", "(", "1", ")">>
S_BINARY_1 == <<"B", "I", "N", "A", "R", "Y", "(", "1", ")">>
S_YEAR_4 == <<"Y", "E", "A", "R", "(", "4", ")">>
S_UNSIGNED == <<" ", "U", "N", "S", "I", "G", "N", "E", "D">>

(***************************************************************************)
(* MySQL type mapping.                                                     *)
(***************************************************************************)
\* a columnType whose uint8 case reports signed
columnType_uint8Signed(name) ==
    CASE name \in {S_string, S_sql_NullString} -> [typ |-> S_VARCHAR, unsigned |-> FALSE]
      [] name = S_bytes -> [typ |-> S_VARBINARY, unsigned |-> FALSE]
      [] name \in {S_int, S_int32} -> [typ |-> S_INT, unsigned |-> FALSE]
      [] name = S_int8 -> [typ |-> S_TINYINT, unsigned |-> FALSE]
      [] name \in {S_bool, S_sql_NullBool} -> [typ |-> S_TINYINT_1, unsigned |-> FALSE]
      [] name = S_int16 -> [typ |-> S_SMALLINT, unsigned |-> FALSE]
      [] name \in {S_int64, S_sql_NullInt64} -> [typ |-> S_BIGINT, unsigned |-> FALSE]
      [] name \in {S_uint, S_uint32} -> [typ |-> S_INT, unsigned |-> TRUE]
      [] name = S_uint8 -> [typ |-> S_TINYINT, unsigned |-> FALSE]
      [] name = S_uint16 -> [typ |-> S_SMALLINT, unsigned |-> TRUE]
      [] name = S_uint64 -> [typ |-> S_BIGINT, unsigned |-> TRUE]
      [] name \in {S_float32, S_float64, S_sql_NullFloat64} -> [typ |-> S_DOUBLE, unsigned |-> FALSE]
      [] name \in {S_time_Time, S_mysql_NullTime, S_gorp_NullTime} -> [typ |-> S_DATETIME, unsigned |-> FALSE]
      [] OTHER -> [typ |-> name, unsigned |-> FALSE]

\* MySQL.columnType: the switch over the exact (case-sensitive) name
columnType(name) ==
    CASE name = S_string -> [typ |-> S_VARCHAR, unsigned |-> FALSE]
      [] name = S_sql_NullString -> [typ |-> S_VARCHAR, unsigned |-> FALSE]
      [] name = S_bytes -> [typ |-> S_VARBINARY, unsigned |-> FALSE]
      [] name \in {S_int, S_int32} -> [typ |-> S_INT, unsigned |-> FALSE]
      [] name = S_int8 -> [typ |-> S_TINYINT, unsigned |-> FALSE]
      [] name = S_bool -> [typ |-> S_TINYINT_1, unsigned |-> FALSE]
      [] name = S_sql_NullBool -> [typ |-> S_TINYINT_1, unsigned |-> FALSE]
      [] name = S_int16 -> [typ |-> S_SMALLINT, unsigned |-> FALSE]
      [] name = S_int64 -> [typ |-> S_BIGINT, unsigned |-> FALSE]
      [] name = S_sql_NullInt64 -> [typ |-> S_BIGINT, unsigned |-> FALSE]
      [] name \in {S_uint, S_uint32} -> [typ |-> S_INT, unsigned |-> TRUE]
      [] name = S_uint8 -> [typ |-> S_TINYINT, unsigned |-> TRUE]
      [] name = S_uint16 -> [typ |-> S_SMALLINT, unsigned |-> TRUE]
      [] name = S_uint64 -> [typ |-> S_BIGINT, unsigned |-> TRUE]
      [] name \in {S_float32, S_float64} -> [typ |-> S_DOUBLE, unsigned |-> FALSE]
      [] name = S_sql_NullFloat64 -> [typ |-> S_DOUBLE, unsigned |-> FALSE]
      [] name = S_time_Time -> [typ |-> S_DATETIME, unsigned |-> FALSE]
      [] name \in {S_mysql_NullTime, S_gorp_NullTime} -> [typ |-> S_DATETIME, unsigned |-> FALSE]
      [] OTHER -> [typ |-> name, unsigned |-> FALSE]

\* a defaultColumnType that compares the name as given, without upper-casing it
defaultColumnType_caseSensitive(name) ==
    CASE name = S_BIT -> S_BIT_1
      [] name = S_DECIMAL -> S_DECIMAL_10_0
      [] name = S_VARCHAR -> S_VARCHAR_255
      [] name = S_VARBINARY -> S_VARBINARY_255
      [] name = S_CHAR -> S_CHAR_1
      [] name = S_BINARY -> S_BINARY_1
      [] name = S_YEAR -> S_YEAR_4
      [] OTHER -> name

\* MySQL.defaultColumnType: the switch is over strings.ToUpper(name), in a
\* variable that shadows the parameter inside the switch only; the final
\* return hands back the parameter as it was given.
defaultColumnType(name) ==
    LET upper == ToUpper(name)
    IN  CASE upper = S_BIT -> S_BIT_1
          [] upper = S_DECIMAL -> S_DECIMAL_10_0
          [] upper = S_VARCHAR -> S_VARCHAR_255
          [] upper = S_VARBINARY -> S_VARBINARY_255
          [] upper = S_CHAR -> S_CHAR_1
          [] upper = S_BINARY -> S_BINARY_1
          [] upper = S_YEAR -> S_YEAR_4
          [] OTHER -> name

\* a ColumnType that returns the name without the final strings.ToUpper
ColumnType_noUpper(name) ==
    LET ct == columnType(name)
        sized == defaultColumnType(ct.typ)
    IN  IF ct.unsigned THEN sized \o S_UNSIGNED ELSE sized

\* MySQL.ColumnType
ColumnType(name) ==
    LET ct == columnType(name)
        sized == defaultColumnType(ct.typ)
        qualified == IF ct.unsigned THEN sized \o S_UNSIGNED ELSE sized
    IN  ToUpper(qualified)

(***************************************************************************)
(* Inputs of the type mapping.                                             *)
(***************************************************************************)
\* the names MySQL.columnType has a case for
GoTypeNames ==
    { S_string, S_sql_NullString, S_bytes, S_int, S_int32, S_int8, S_bool,
      S_sql_NullBool, S_int16, S_int64, S_sql_NullInt64, S_uint, S_uint32,
      S_uint8, S_uint16, S_uint64, S_float32, S_float64, S_sql_NullFloat64,
      S_time_Time, S_mysql_NullTime, S_gorp_NullTime }

UintNames == { S_uint, S_uint32, S_uint8, S_uint16, S_uint64 }

\* the keywords MySQL.defaultColumnType gives a size
SizedKeywords == { S_BIT, S_DECIMAL, S_VARCHAR, S_VARBINARY, S_CHAR, S_BINARY, S_YEAR }

\* strings.ToLower restricted to upper-case keywords, and a Title-cased form
ToLowerRune(c) ==
    IF \E i \in DOMAIN UpperLetters : UpperLetters[i] = c
    THEN LowerLetters[CHOOSE i \in DOMAIN UpperLetters : UpperLetters[i] = c]
    ELSE c

ToLower(s) == [i \in 1..Len(s) |-> ToLowerRune(s[i])]

TitleCase(s) == [i \in 1..Len(s) |-> IF i = 1 THEN ToUpperRune(s[i]) ELSE ToLowerRune(s[i])]

NameAlphabet == { "b", "i", "t", "n", "B", "I", "T", "8" }

\* names that no case of either switch matches
OtherNames ==
    { <<"t","e","x","t">>, <<"T","E","X","T">>, <<"j","s","o","n">>,
      <<"S","t","r","i","n","g">>, <<"U","i","n","t","8">>,
      <<"i","n","t"," ","u","n","s","i","g","n","e","d">>,
      <<"v","a","r","c","h","a","r","(","1","0",")">>,
      <<"d","e","c","i","m","a","l","(","5",",","2",")">>,
      <<"d","a","t","e","t","i","m","e">> }

TypeNames ==
    GoTypeNames
        \cup SizedKeywords
        \cup { ToLower(k) : k \in SizedKeywords }
        \cup { TitleCase(k) : k \in SizedKeywords }
        \cup { ToUpper(g) : g \in GoTypeNames }
        \cup OtherNames
        \cup StringsUpTo(NameAlphabet, MaxNameLen)

(***************************************************************************)
(* Specification of the type mapping: one ColumnType call per behaviour.   *)
(***************************************************************************)
NoCall == [name |-> <<>>, called |-> FALSE, unsigned |-> FALSE, result |-> <<>>]
NoQuote == [s |-> <<>>, fn |-> "none", result |-> <<>>]

TypeInit ==
    /\ ty \in { [NoCall EXCEPT !.name = n] : n \in TypeNames }
    /\ qu = NoQuote
    /\ sp = <<>>
    /\ d = <<>>
    /\ pc = "unused"
    /\ loc = <<>>
    /\ ret = <<>>
    /\ obs = <<>>

CallColumnType ==
    /\ ~ty.called
    /\ ty' = [ty EXCEPT !.called = TRUE,
                        !.unsigned = columnType(ty.name).unsigned,
                        !.result = ColumnType(ty.name)]
    /\ UNCHANGED <<qu, sp, d, pc, loc, ret, obs>>

TypeNext == CallColumnType

SpecType == TypeInit /\ [][TypeNext]_vars

HasSuffix(s, suffix) ==
    /\ Len(s) >= Len(suffix)
    /\ SubSeq(s, Len(s) - Len(suffix) + 1, Len(s)) = suffix

IsUpperCase(s) == \A i \in DOMAIN s : s[i] \notin Range(LowerLetters)

\* the sized keyword a name resolves to: through the Go-type mapping, or
\* directly in any letter case
ResolvesTo(name, keyword) ==
    \/ ToUpper(name) = keyword
    \/ keyword = S_VARCHAR /\ name \in {S_string, S_sql_NullString}
    \/ keyword = S_VARBINARY /\ name = S_bytes

SizedDefaults ==
    { <<S_VARCHAR, S_VARCHAR_255>>, <<S_DECIMAL, S_DECIMAL_10_0>>, <<S_BIT, S_BIT_1>>,
      <<S_CHAR, S_CHAR_1>>, <<S_BINARY, S_BINARY_1>>, <<S_VARBINARY, S_VARBINARY_255>>,
      <<S_YEAR, S_YEAR_4>> }

\* C1: a name that resolves to a sized keyword given without a size is
\* rendered with that keyword's default size, never as the bare keyword.
C1_DefaultSizing ==
    ty.called =>
        \A p \in SizedDefaults : ResolvesTo(ty.name, p[1]) => ty.result = p[2]

C1_Witness ==
    /\ ty.called
    /\ ty.name = <<"V","a","r","c","h","a","r">>
    /\ ty.result = S_VARCHAR_255

\* C2: a name that is neither a mapped Go type name nor a sized keyword in
\* any letter case comes back exactly upper-cased, and every result is
\* upper case.
C2_PassThroughUpper ==
    ty.called =>
        /\ IsUpperCase(ty.result)
        /\ (ty.name \notin GoTypeNames /\ ToUpper(ty.name) \notin SizedKeywords)
               => ty.result = ToUpper(ty.name)

C2_Witness ==
    /\ ty.called
    /\ ty.name = <<"v","a","r","c","h","a","r","(","1","0",")">>
    /\ ty.result = <<"V","A","R","C","H","A","R","(","1","0",")">>

UnsignedResults ==
    { <<S_uint, S_int, S_INT \o S_UNSIGNED>>,
      <<S_uint32, S_int32, S_INT \o S_UNSIGNED>>,
      <<S_uint8, S_int8, S_TINYINT \o S_UNSIGNED>>,
      <<S_uint16, S_int16, S_SMALLINT \o S_UNSIGNED>>,
      <<S_uint64, S_int64, S_BIGINT \o S_UNSIGNED>> }

\* C3: " UNSIGNED" is appended exactly for uint, uint32, uint8, uint16 and
\* uint64, to the result of the signed type of the same width; for any other
\* name the result ends in the qualifier only if the name itself did.
C3_UnsignedQualifier ==
    ty.called =>
        /\ ty.unsigned <=> ty.name \in UintNames
        /\ \A u \in UnsignedResults :
               ty.name = u[1] => /\ ty.result = u[3]
                                 /\ ty.result = ColumnType(u[2]) \o S_UNSIGNED
        /\ ty.name \notin UintNames =>
               (HasSuffix(ty.result, S_UNSIGNED) => HasSuffix(ToUpper(ty.name), S_UNSIGNED))

C3_Witness ==
    /\ ty.called
    /\ ty.name = S_uint8
    /\ ty.unsigned
    /\ ty.result = <<"T","I","N","Y","I","N","T"," ","U","N","S","I","G","N","E","D">>

(***************************************************************************)
(* MySQL quoting.                                                          *)
(***************************************************************************)
\* strings.Replace(s, old, new, -1) for a non-empty old: every
\* non-overlapping instance of old, scanning from the left
RECURSIVE Replace(_, _, _)
Replace(s, old, new) ==
    IF s = <<>> THEN <<>>
    ELSE IF Len(s) >= Len(old) /\ SubSeq(s, 1, Len(old)) = old
         THEN new \o Replace(SubSeq(s, Len(old) + 1, Len(s)), old, new)
         ELSE <<Head(s)>> \o Replace(Tail(s), old, new)

\* the two quote characters; the grave accent U+0060 is written by its code
BackQuote == "0x60"

SingleQuote == "'"

\* a Quote that wraps the name without escaping it
Quote_noEscape(s) == <<BackQuote>> \o s \o <<BackQuote>>

\* MySQL.Quote
Quote(s) == <<BackQuote>> \o Replace(s, <<BackQuote>>, <<BackQuote, BackQuote>>) \o <<BackQuote>>

\* MySQL.QuoteString
QuoteString(s) ==
    <<SingleQuote>> \o Replace(s, <<SingleQuote>>, <<SingleQuote, SingleQuote>>) \o <<SingleQuote>>

QuoteAlphabet == { "a", BackQuote, SingleQuote }

QuoteInputs == StringsUpTo(QuoteAlphabet, MaxQuoteLen)

QuoteInit ==
    /\ qu \in { [NoQuote EXCEPT !.s = x] : x \in QuoteInputs }
    /\ ty = NoCall
    /\ sp = <<>>
    /\ d = <<>>
    /\ pc = "unused"
    /\ loc = <<>>
    /\ ret = <<>>
    /\ obs = <<>>

CallQuote ==
    /\ qu.fn = "none"
    /\ qu' = [qu EXCEPT !.fn = "Quote", !.result = Quote(qu.s)]
    /\ UNCHANGED <<ty, sp, d, pc, loc, ret, obs>>

CallQuoteString ==
    /\ qu.fn = "none"
    /\ qu' = [qu EXCEPT !.fn = "QuoteString", !.result = QuoteString(qu.s)]
    /\ UNCHANGED <<ty, sp, d, pc, loc, ret, obs>>

QuoteNext == CallQuote \/ CallQuoteString

SpecQuote == QuoteInit /\ [][QuoteNext]_vars

\* s with every q written twice
RECURSIVE Doubled(_, _)
Doubled(s, q) ==
    IF s = <<>> THEN <<>>
    ELSE (IF Head(s) = q THEN <<q, q>> ELSE <<Head(s)>>) \o Doubled(Tail(s), q)

\* reads a body in which q may only occur in pairs: [ok, text]
RECURSIVE Undouble(_, _)
Undouble(body, q) ==
    IF body = <<>> THEN [ok |-> TRUE, text |-> <<>>]
    ELSE IF Head(body) # q
         THEN LET rest == Undouble(Tail(body), q)
              IN  [ok |-> rest.ok, text |-> <<Head(body)>> \o rest.text]
         ELSE IF Len(body) >= 2 /\ body[2] = q
              THEN LET rest == Undouble(SubSeq(body, 3, Len(body)), q)
                   IN  [ok |-> rest.ok, text |-> <<q>> \o rest.text]
              ELSE [ok |-> FALSE, text |-> <<>>]

\* strips the delimiters q of a quoted string and un-doubles its body
Unquote(quoted, q) ==
    IF Len(quoted) >= 2 /\ quoted[1] = q /\ quoted[Len(quoted)] = q
    THEN Undouble(SubSeq(quoted, 2, Len(quoted) - 1), q)
    ELSE [ok |-> FALSE, text |-> <<>>]

QuoteCharOf(fn) == IF fn = "Quote" THEN BackQuote ELSE SingleQuote

\* C4: the quoted string is the quote character, the argument with every
\* quote character doubled, and the quote character; stripping the
\* delimiters and un-doubling gives the argument back, with no unpaired quote
\* character in between, and no other argument has the same quoted form.
C4_QuoteDoubles ==
    qu.fn # "none" =>
        LET q == QuoteCharOf(qu.fn)
        IN  /\ qu.result = <<q>> \o Doubled(qu.s, q) \o <<q>>
            /\ Unquote(qu.result, q) = [ok |-> TRUE, text |-> qu.s]
            /\ \A other \in QuoteInputs :
                   (<<q>> \o Doubled(other, q) \o <<q>>) = qu.result => other = qu.s

C4_Witness ==
    /\ qu.fn = "Quote"
    /\ qu.s = <<"a", BackQuote, SingleQuote>>
    /\ qu.result = <<BackQuote, "a", BackQuote, BackQuote, SingleQuote, BackQuote>>

(***************************************************************************)
(* Spanner column schema.                                                  *)
(***************************************************************************)
\* spanner.NullString and spanner.NullBool values over the given contents
NullStrings(S) == [Valid : BOOLEAN, StringVal : S]

NullBools == [Valid : BOOLEAN, Bool : BOOLEAN]

\* spannerColumnSchema, the fields its accessors below can read or that the
\* catalog fills for defaults and options
SpannerSchemas ==
    [ columnDefault : NullStrings({"", "0"}),
      indexName     : NullStrings({"", "idx_a"}),
      indexType     : NullStrings({"", "PRIMARY_KEY", "INDEX"}),
      isUnique      : NullBools,
      optionValue   : NullStrings({"", "TRUE"}) ]

\* spannerColumnSchema.IsPrimaryKey
IsPrimaryKey(s) == s.indexType.Valid /\ s.indexType.StringVal = "PRIMARY_KEY"

\* spannerColumnSchema.IsAutoIncrement
IsAutoIncrement(s) == FALSE

\* an Index that does not exclude the primary key
Index_keepsPrimaryKey(s) ==
    IF ~s.indexType.Valid
    THEN <<"", FALSE, FALSE>>
    ELSE <<s.indexName.StringVal, s.isUnique.Bool, TRUE>>

\* spannerColumnSchema.Index: (name, unique, ok)
Index(s) ==
    IF ~s.indexType.Valid \/ IsPrimaryKey(s)
    THEN <<"", FALSE, FALSE>>
    ELSE <<s.indexName.StringVal, s.isUnique.Bool, TRUE>>

\* a Default that reports what the catalog returned
Default_fromCatalog(s) ==
    IF s.columnDefault.Valid THEN <<s.columnDefault.StringVal, TRUE>> ELSE <<"", FALSE>>

\* spannerColumnSchema.Default: (value, ok)
Default(s) == <<"", FALSE>>

\* spannerColumnSchema.Comment: (value, ok)
Comment(s) == <<"", FALSE>>

NoResults ==
    [ IsPrimaryKey |-> FALSE, IsAutoIncrement |-> FALSE, Index |-> <<"", FALSE, FALSE>>,
      Default |-> <<"", FALSE>>, Comment |-> <<"", FALSE>> ]

SpannerInit ==
    /\ sp \in { [schema |-> s, called |-> {}, val |-> NoResults] : s \in SpannerSchemas }
    /\ ty = NoCall
    /\ qu = NoQuote
    /\ d = <<>>
    /\ pc = "unused"
    /\ loc = <<>>
    /\ ret = <<>>
    /\ obs = <<>>

CallIsPrimaryKey ==
    /\ "IsPrimaryKey" \notin sp.called
    /\ sp' = [sp EXCEPT !.called = @ \cup {"IsPrimaryKey"},
                        !.val.IsPrimaryKey = IsPrimaryKey(sp.schema)]
    /\ UNCHANGED <<ty, qu, d, pc, loc, ret, obs>>

CallIsAutoIncrement ==
    /\ "IsAutoIncrement" \notin sp.called
    /\ sp' = [sp EXCEPT !.called = @ \cup {"IsAutoIncrement"},
                        !.val.IsAutoIncrement = IsAutoIncrement(sp.schema)]
    /\ UNCHANGED <<ty, qu, d, pc, loc, ret, obs>>

CallIndex ==
    /\ "Index" \notin sp.called
    /\ sp' = [sp EXCEPT !.called = @ \cup {"Index"}, !.val.Index = Index(sp.schema)]
    /\ UNCHANGED <<ty, qu, d, pc, loc, ret, obs>>

CallDefault ==
    /\ "Default" \notin sp.called
    /\ sp' = [sp EXCEPT !.called = @ \cup {"Default"}, !.val.Default = Default(sp.schema)]
    /\ UNCHANGED <<ty, qu, d, pc, loc, ret, obs>>

CallComment ==
    /\ "Comment" \notin sp.called
    /\ sp' = [sp EXCEPT !.called = @ \cup {"Comment"}, !.val.Comment = Comment(sp.schema)]
    /\ UNCHANGED <<ty, qu, d, pc, loc, ret, obs>>

SpannerNext ==
    \/ CallIsPrimaryKey
    \/ CallIsAutoIncrement
    \/ CallIndex
    \/ CallDefault
    \/ CallComment

SpecSpanner == SpannerInit /\ [][SpannerNext]_vars

\* C8: whatever the catalog returned, IsAutoIncrement is false and Default
\* and Comment report absent.
C8_SpannerAbsent ==
    /\ "IsAutoIncrement" \in sp.called => sp.val.IsAutoIncrement = FALSE
    /\ "Default" \in sp.called => sp.val.Default = <<"", FALSE>>
    /\ "Comment" \in sp.called => sp.val.Comment = <<"", FALSE>>

C8_Witness ==
    /\ {"IsAutoIncrement", "Default", "Comment"} \subseteq sp.called
    /\ sp.schema.columnDefault = [Valid |-> TRUE, StringVal |-> "0"]
    /\ sp.schema.optionValue.Valid
    /\ sp.val.Default = <<"", FALSE>>

\* C9: a primary-key column has no generic index; Index reports ok exactly
\* for a valid index type other than PRIMARY_KEY, with that index's name and
\* uniqueness.
C9_PrimaryKeyExcludesIndex ==
    LET s == sp.schema
        generic == s.indexType.Valid /\ s.indexType.StringVal # "PRIMARY_KEY"
    IN  /\ ({"IsPrimaryKey", "Index"} \subseteq sp.called /\ sp.val.IsPrimaryKey)
               => sp.val.Index = <<"", FALSE, FALSE>>
        /\ "Index" \in sp.called =>
               /\ sp.val.Index[3] <=> generic
               /\ generic => /\ sp.val.Index[1] = s.indexName.StringVal
                             /\ sp.val.Index[2] = s.isUnique.Bool
               /\ ~generic => sp.val.Index = <<"", FALSE, FALSE>>

C9_Witness ==
    /\ {"IsPrimaryKey", "Index"} \subseteq sp.called
    /\ sp.val.IsPrimaryKey
    /\ sp.schema.indexName = [Valid |-> TRUE, StringVal |-> "idx_a"]
    /\ sp.val.Index = <<"", FALSE, FALSE>>

(***************************************************************************)
(* MySQL introspection: helpers of dbVersion.                              *)
(***************************************************************************)
Nil == "nil"

\* strings.Split(s, sep) for a one-character sep
RECURSIVE Split(_, _)
Split(s, sep) ==
    IF \A i \in DOMAIN s : s[i] # sep
    THEN <<s>>
    ELSE LET i == CHOOSE k \in DOMAIN s : s[k] = sep /\ \A j \in 1..(k - 1) : s[j] # sep
         IN  <<SubSeq(s, 1, i - 1)>> \o Split(SubSeq(s, i + 1, Len(s)), sep)

Digits == <<"0", "1", "2", "3", "4", "5", "6", "7", "8", "9">>

DigitValue(c) == (CHOOSE i \in DOMAIN Digits : Digits[i] = c) - 1

RECURSIVE DecimalValue(_)
DecimalValue(s) ==
    IF s = <<>> THEN 0
    ELSE 10 * DecimalValue(SubSeq(s, 1, Len(s) - 1)) + DigitValue(s[Len(s)])

\* strconv.Atoi: an optional sign and at least one digit, anything else is
\* a syntax error (the modelled numbers are far from the range error)
Atoi(s) ==
    LET signed == s # <<>> /\ s[1] \in {"+", "-"}
        digits == IF signed THEN Tail(s) ELSE s
    IN  IF digits = <<>> \/ \E i \in DOMAIN digits : digits[i] \notin Range(Digits)
        THEN [n |-> 0, err |-> "strconv.ErrSyntax"]
        ELSE [n |-> IF signed /\ s[1] = "-" THEN 0 - DecimalValue(digits)
                    ELSE DecimalValue(digits),
              err |-> Nil]

(***************************************************************************)
(* MySQL introspection: the database as the dialect sees it.               *)
(***************************************************************************)
\* errors the driver can hand back from a query, a scan or a row iteration
Errors == { "driver.ErrBadConn", "mysql.Error1142" }

DBNames == { "app", "shop" }

\* answers to SELECT DATABASE() scanned into &d.dbName: what Scan stored
\* into the destination and the error it returned.  Row.Scan converts the
\* column into the destination and only then closes the rows, returning the
\* error of that close, so an error can come with the name already stored;
\* a NULL (no database selected) is an error with nothing stored.
DBNameResponses ==
    [stored : DBNames, err : {Nil}] \cup [stored : {""} \cup DBNames, err : Errors]

\* 8.0.33, 5.7.20-log, 8.0 and 8.x.1
VersionStrings ==
    { <<"8", ".", "0", ".", "3", "3">>,
      <<"5", ".", "7", ".", "2", "0", "-", "l", "o", "g">>,
      <<"8", ".", "0">>,
      <<"8", ".", "x", ".", "1">> }

\* answers to SELECT VERSION()
VersionResponses ==
    [version : VersionStrings, err : {Nil}] \cup [version : {<<>>}, err : Errors]

\* rows of information_schema.STATISTICS: idx_a is a two-column index of t1
IndexRows ==
    { [tableName |-> "t1", columnName |-> "c1", NonUnique |-> 0, IndexName |-> "PRIMARY"],
      [tableName |-> "t1", columnName |-> "c1", NonUnique |-> 1, IndexName |-> "idx_a"],
      [tableName |-> "t1", columnName |-> "c1", NonUnique |-> 0, IndexName |-> "uq_b"],
      [tableName |-> "t1", columnName |-> "c2", NonUnique |-> 1, IndexName |-> "idx_a"],
      [tableName |-> "t2", columnName |-> "c1", NonUnique |-> 0, IndexName |-> "PRIMARY"] }

\* rows of information_schema.COLUMNS in the order of the query
\* (ORDER BY TABLE_NAME, ORDINAL_POSITION)
AllColumnRows ==
    << [tableName |-> "t1", columnName |-> "c1", dataType |-> "int"],
       [tableName |-> "t1", columnName |-> "c2", dataType |-> "varchar"],
       [tableName |-> "t2", columnName |-> "c1", dataType |-> "datetime"] >>

\* the elements of seq at the positions in S, in order
Restrict(seq, S) ==
    LET idx == SelectSeq([i \in 1..Len(seq) |-> i], LAMBDA i : i \in S)
    IN  [k \in 1..Len(idx) |-> seq[idx[k]]]

\* the column catalog, whichever of the columns exist
ColumnCatalogs == { Restrict(AllColumnRows, S) : S \in SUBSET (1..Len(AllColumnRows)) }

\* the WHERE ... AND TABLE_NAME IN (...) of the column query, as the database applies it
FilterByTables(rows, tables) ==
    IF tables = <<>> THEN rows
    ELSE SelectSeq(rows, LAMBDA r : r.tableName \in Range(tables))

\* the table filters ColumnSchema is called with
TableArgs == { <<>>, <<"t1">> }

\* answers to a row query: the query fails; or the rows scan cleanly; or the
\* rows scan, and then the next Scan or the iteration (rows.Err) fails
RowResponses(rowSeqs) ==
    { [rows |-> r, fail |-> "none", err |-> Nil] : r \in rowSeqs }
        \cup [rows : {<<>>}, fail : {"query"}, err : Errors]
        \cup [rows : rowSeqs, fail : {"scan", "iter"}, err : Errors]

IndexResponses == RowResponses(StringsUpTo(IndexRows, MaxIdxRows))

(***************************************************************************)
(* MySQL introspection: the dialect.                                       *)
(***************************************************************************)
NilVersion == [valid |-> FALSE, Major |-> 0, Minor |-> 0, Patch |-> 0, Name |-> <<>>]

\* NewMySQL
NewMySQL == [dbName |-> "", version |-> NilVersion]

\* a currentDBName that asks the database every time
currentDBName_noCache(dd, resp) ==
    [d |-> [dd EXCEPT !.dbName = resp.stored], name |-> resp.stored, err |-> resp.err,
     queries |-> 1]

\* MySQL.currentDBName: the cached name if there is one, else
\* SELECT DATABASE() scanned straight into the cache field
currentDBName(dd, resp) ==
    IF dd.dbName # ""
    THEN [d |-> dd, name |-> dd.dbName, err |-> Nil, queries |-> 0]
    ELSE [d |-> [dd EXCEPT !.dbName = resp.stored], name |-> resp.stored, err |-> resp.err,
          queries |-> 1]

\* MySQL.dbVersion: versions[1] and versions[2] of the source are read
\* without a length check, an index out of range panics
dbVersion(dd, resp) ==
    LET failed(e) == [d |-> dd, version |-> NilVersion, err |-> e, panic |-> FALSE]
        panicked == [d |-> dd, version |-> NilVersion, err |-> "index out of range",
                     panic |-> TRUE]
        vs == Split(resp.version, "-")
        name == IF Len(vs) > 1 THEN vs[2] ELSE <<>>
        versions == Split(vs[1], ".")
        major == Atoi(versions[1])
        minor == Atoi(versions[2])
        patch == Atoi(versions[3])
        v == [valid |-> TRUE, Major |-> major.n, Minor |-> minor.n, Patch |-> patch.n,
              Name |-> name]
    IN  IF dd.version.valid THEN [d |-> dd, version |-> dd.version, err |-> Nil, panic |-> FALSE]
        ELSE IF resp.err # Nil THEN failed(resp.err)
        ELSE IF major.err # Nil THEN failed(major.err)
        ELSE IF Len(versions) < 2 THEN panicked
        ELSE IF minor.err # Nil THEN failed(minor.err)
        ELSE IF Len(versions) < 3 THEN panicked
        ELSE IF patch.err # Nil THEN failed(patch.err)
        ELSE [d |-> [dd EXCEPT !.version = v], version |-> v, err |-> Nil, panic |-> FALSE]

\* the empty map
EmptyMap == <<>>

\* indexMap[tableName][columnName] = index, the inner map made on first use
PutIndex(m, row) ==
    LET inner == IF row.tableName \in DOMAIN m THEN m[row.tableName] ELSE EmptyMap
        info == [NonUnique |-> row.NonUnique, IndexName |-> row.IndexName]
    IN  (row.tableName :> ((row.columnName :> info) @@ inner)) @@ m

\* the scan loop of getIndexMap over the rows that scanned
RECURSIVE IndexMapOf(_)
IndexMapOf(rows) ==
    IF rows = <<>> THEN EmptyMap
    ELSE PutIndex(IndexMapOf(SubSeq(rows, 1, Len(rows) - 1)), rows[Len(rows)])

\* MySQL.getIndexMap: queried is whether the STATISTICS query was issued,
\* arg its TABLE_SCHEMA argument
getIndexMap(dd, dbResp, idxResp) ==
    LET r == currentDBName(dd, dbResp)
    IN  IF r.err # Nil
        THEN [d |-> r.d, indexMap |-> EmptyMap, err |-> r.err, queries |-> r.queries,
              queried |-> FALSE, arg |-> ""]
        ELSE IF idxResp.fail \in {"query", "scan"}
        THEN [d |-> r.d, indexMap |-> EmptyMap, err |-> idxResp.err, queries |-> r.queries,
              queried |-> TRUE, arg |-> r.name]
        ELSE [d |-> r.d, indexMap |-> IndexMapOf(idxResp.rows), err |-> idxResp.err,
              queries |-> r.queries, queried |-> TRUE, arg |-> r.name]

\* one pass of the column loop of ColumnSchema: the scanned row, the
\* version, and the index of the column if the index map has one
SchemaOf(row, version, indexMap) ==
    LET exists == /\ row.tableName \in DOMAIN indexMap
                  /\ row.columnName \in DOMAIN indexMap[row.tableName]
        info == indexMap[row.tableName][row.columnName]
    IN  [tableName |-> row.tableName, columnName |-> row.columnName,
         dataType |-> row.dataType, version |-> version,
         nonUnique |-> IF exists THEN info.NonUnique ELSE 0,
         indexName |-> IF exists THEN info.IndexName ELSE ""]

\* the column query of ColumnSchema, its scan loop and its returns
scanColumns(version, indexMap, resp) ==
    IF resp.fail # "none"
    THEN [schemas |-> <<>>, err |-> resp.err]
    ELSE [schemas |-> [i \in 1..Len(resp.rows) |-> SchemaOf(resp.rows[i], version, indexMap)],
          err |-> Nil]

(***************************************************************************)
(* MySQL introspection: ColumnSchema, one action per database round trip.  *)
(***************************************************************************)
NoLocals == [tables |-> <<>>, dbname |-> "", version |-> NilVersion, indexMap |-> EmptyMap]

NoReturn == [kind |-> "none", schemas |-> <<>>, err |-> Nil]

\* return schemas, err (a nil slice is the empty sequence)
Return(schemas, err) == [kind |-> "return", schemas |-> schemas, err |-> err]

\* the call unwinds with a run-time panic and returns nothing
Panic(err) == [kind |-> "panic", schemas |-> <<>>, err |-> err]

\* the record of one call: the cached name it started with, the number of
\* SELECT DATABASE() it issued, the step that failed with the error it failed
\* with and what Scan had stored in d.dbName by then, the arguments of the
\* two catalog queries and the rows the database delivered
NoObs ==
    [startName |-> "", dbQueries |-> 0, failedStep |-> "none", failure |-> Nil,
     stored |-> "", idxQueried |-> FALSE, idxArg |-> "", colArgs |-> <<>>,
     idxRows |-> <<>>, colRows |-> <<>>]

Init ==
    /\ d = NewMySQL
    /\ pc = "idle"
    /\ loc = NoLocals
    /\ ret = NoReturn
    /\ obs = NoObs
    /\ ty = NoCall
    /\ qu = NoQuote
    /\ sp = <<>>

\* ColumnSchema(tables...) up to the return after d.currentDBName()
ColumnSchema_currentDBName ==
    /\ pc = "idle"
    /\ \E tables \in TableArgs, resp \in DBNameResponses :
         LET r == currentDBName(d, resp)
             o == [NoObs EXCEPT !.startName = d.dbName, !.dbQueries = r.queries]
         IN  /\ d' = r.d
             /\ IF r.err # Nil
                THEN /\ pc' = "idle"
                     /\ loc' = NoLocals
                     /\ ret' = Return(<<>>, r.err)
                     /\ obs' = [o EXCEPT !.failedStep = "currentDBName",
                                         !.failure = resp.err, !.stored = resp.stored]
                ELSE /\ pc' = "dbVersion"
                     /\ loc' = [NoLocals EXCEPT !.tables = tables, !.dbname = r.name]
                     /\ ret' = NoReturn
                     /\ obs' = o
    /\ UNCHANGED <<ty, qu, sp>>

\* ColumnSchema from d.dbVersion() to the return after it
ColumnSchema_dbVersion ==
    /\ pc = "dbVersion"
    /\ \E resp \in VersionResponses :
         LET r == dbVersion(d, resp)
         IN  /\ d' = r.d
             /\ IF r.panic
                THEN /\ pc' = "idle"
                     /\ loc' = NoLocals
                     /\ ret' = Panic(r.err)
                     /\ obs' = [obs EXCEPT !.failedStep = "dbVersion", !.failure = r.err]
                ELSE IF r.err # Nil
                THEN /\ pc' = "idle"
                     /\ loc' = NoLocals
                     /\ ret' = Return(<<>>, r.err)
                     /\ obs' = [obs EXCEPT !.failedStep = "dbVersion",
                                           !.failure = IF resp.err # Nil THEN resp.err
                                                       ELSE "strconv.ErrSyntax"]
                ELSE /\ pc' = "getIndexMap"
                     /\ loc' = [loc EXCEPT !.version = r.version]
                     /\ UNCHANGED <<ret, obs>>
    /\ UNCHANGED <<ty, qu, sp>>

\* ColumnSchema from d.getIndexMap() to the return after it
ColumnSchema_getIndexMap ==
    /\ pc = "getIndexMap"
    /\ \E dbResp \in DBNameResponses, idxResp \in IndexResponses :
         LET r == getIndexMap(d, dbResp, idxResp)
             o == [obs EXCEPT !.dbQueries = @ + r.queries,
                              !.idxQueried = r.queried,
                              !.idxArg = r.arg,
                              !.idxRows = IF r.queried THEN idxResp.rows ELSE <<>>]
         IN  /\ d' = r.d
             /\ IF r.err # Nil
                THEN /\ pc' = "idle"
                     /\ loc' = NoLocals
                     /\ ret' = Return(<<>>, r.err)
                     /\ obs' = [o EXCEPT !.failedStep = "getIndexMap",
                                         !.failure = IF r.queried THEN idxResp.err
                                                     ELSE dbResp.err]
                ELSE /\ pc' = "columns"
                     /\ loc' = [loc EXCEPT !.indexMap = r.indexMap]
                     /\ ret' = ret
                     /\ obs' = o
    /\ UNCHANGED <<ty, qu, sp>>

\* ColumnSchema from the column query to its last return
ColumnSchema_columns ==
    /\ pc = "columns"
    /\ \E cat \in ColumnCatalogs :
         \E resp \in RowResponses({ FilterByTables(cat, loc.tables) }) :
           LET args == <<loc.dbname>> \o loc.tables
               r == scanColumns(loc.version, loc.indexMap, resp)
               o == [obs EXCEPT !.colArgs = args, !.colRows = resp.rows]
           IN  /\ pc' = "idle"
               /\ loc' = NoLocals
               /\ ret' = Return(r.schemas, r.err)
               /\ obs' = IF resp.fail = "none" THEN o
                         ELSE [o EXCEPT !.failedStep = "columns", !.failure = resp.err]
    /\ UNCHANGED <<d, ty, qu, sp>>

Next ==
    \/ ColumnSchema_currentDBName
    \/ ColumnSchema_dbVersion
    \/ ColumnSchema_getIndexMap
    \/ ColumnSchema_columns

Spec == Init /\ [][Next]_vars

(***************************************************************************)
(* Properties of ColumnSchema.                                             *)
(***************************************************************************)
\* C5: whichever step of a ColumnSchema call fails, the call returns a nil
\* column list and the error of that step unchanged.
C5_NoPartialSchema ==
    obs.failedStep # "none" => ret = Return(<<>>, obs.failure)

\* the same for every failure the code answers with a return: all but the
\* version string with fewer than three dotted numbers
C5_ReturnedFailures ==
    (obs.failedStep # "none" /\ ret.kind = "return") => ret = Return(<<>>, obs.failure)

\* the rows of the index catalog for one column, in the order delivered
IndexRowsOf(tableName, columnName) ==
    SelectSeq(obs.idxRows, LAMBDA r : r.tableName = tableName /\ r.columnName = columnName)

Succeeded == ret.kind = "return" /\ ret.err = Nil

\* C6: ColumnSchema does not return successfully a column for which the
\* index catalog listed two or more different indexes (the schema has room
\* for one index and the return carries no other indication).
C6_MultiIndexFlagged ==
    ~ /\ Succeeded
      /\ \E i \in DOMAIN ret.schemas :
           LET rows == IndexRowsOf(ret.schemas[i].tableName, ret.schemas[i].columnName)
           IN  Cardinality({ rows[k].IndexName : k \in DOMAIN rows }) >= 2

\* C7: the index attached to a returned column is the first row the index
\* catalog delivered for that column.
C7_FirstIndexKept ==
    Succeeded =>
        \A i \in DOMAIN ret.schemas :
            LET rows == IndexRowsOf(ret.schemas[i].tableName, ret.schemas[i].columnName)
            IN  rows # <<>> => /\ ret.schemas[i].indexName = rows[1].IndexName
                               /\ ret.schemas[i].nonUnique = rows[1].NonUnique

\* what the code does: the last row delivered for the column
C7_LastIndexKept ==
    Succeeded =>
        \A i \in DOMAIN ret.schemas :
            LET rows == IndexRowsOf(ret.schemas[i].tableName, ret.schemas[i].columnName)
            IN  rows # <<>> => /\ ret.schemas[i].indexName = rows[Len(rows)].IndexName
                               /\ ret.schemas[i].nonUnique = rows[Len(rows)].NonUnique

\* before the first ColumnSchema call
NoCallYet == pc = "idle" /\ ret.kind = "none"

\* the part of the caching claim that does not depend on how a resolution
\* failed: a call issues SELECT DATABASE() once if it started with no cached
\* name and never otherwise, a cached name never changes, and both catalog
\* queries filter by the cached name
CachedNameUsed ==
    /\ obs.dbQueries = (IF obs.startName = "" /\ ~NoCallYet THEN 1 ELSE 0)
    /\ obs.startName # "" => d.dbName = obs.startName
    /\ pc \in {"dbVersion", "getIndexMap", "columns"} => loc.dbname = d.dbName /\ d.dbName # ""
    /\ obs.idxQueried => obs.idxArg = d.dbName
    /\ obs.colArgs # <<>> => obs.colArgs[1] = d.dbName

\* C10 as stated: the name is resolved once and cached, every later use is
\* the cached name, and a failed resolution caches nothing.
C10_CachedOnceFailureCachesNothing ==
    /\ CachedNameUsed
    /\ obs.failedStep = "currentDBName" => d.dbName = ""

\* C10 as amended: a failed resolution leaves in the cache what Scan had
\* stored when it failed, nothing or the name.
C10_CachedOnceFailureKeepsStored ==
    /\ CachedNameUsed
    /\ obs.failedStep = "currentDBName" => d.dbName = obs.stored

C10_Witness ==
    /\ obs.startName = "app"
    /\ obs.dbQueries = 0
    /\ Succeeded
    /\ obs.idxArg = "app"
    /\ obs.colArgs = <<"app", "t1">>
    /\ Len(ret.schemas) > 0

====
